---- MODULE Spec2Model ----
(***************************************************************************)
(* A model of hypnagogic's DMI masking operation                           *)
(* (hypnagogic_core/src/operations/modifiers/dmi_masking.rs), of the       *)
(* error values it raises (modifiers/error.rs) and of the way the CLI      *)
(* error wraps them (hypnagogic_cli/src/error.rs).                         *)
(*                                                                         *)
(* Strings are TLA+ strings (format! is \o).  Vec<T> is a sequence; a      *)
(* Rust index i (0-based) addresses element i + 1 of the sequence.         *)
(* Option<T> is a sequence of length at most one: None is <<>> and         *)
(* Some(v) is <<v>>.  An image is the row-major sequence of its pixels,    *)
(* a pixel the tuple <<r, g, b, a>>.                                       *)
(***************************************************************************)
EXTENDS Integers, Sequences, FiniteSets, TLC

(* input:  the InputIcon handed to perform_operation (its kind, its states)
   config: the DMIMasking configuration
   result: what the last run returned: <<"Ok", states>> or <<"Err", error>>
   runs:   how many times perform_operation has run
   report: None, or Some(what the CLI error renders) *)
VARIABLES input, config, result, runs, report

vars == <<input, config, result, runs, report>>

----------------------------------------------------------------------------
(* Bounds of the model *)

\* longest target_states list drawn for the configuration
MaxTargets == 3
\* longest state list drawn for a sprite whose layout is varied
MaxStates == 4
\* how many times perform_operation is run on its own output
MaxRuns == 2
\* pixels of the canvas (icon.width * icon.height)
NPix == 2
\* most frames a drawn state has
MaxFrames == 2
\* longest target_states list drawn together with a varied layout
MaxMergeTargets == 2

----------------------------------------------------------------------------
(* Option, Vec and str helpers *)

None == <<>>

Some(v) == <<v>>

unwrap(o) == o[1]

unwrap_or_default(o) == IF o = None THEN <<>> ELSE o[1]

max(x, y) == IF x >= y THEN x ELSE y

min(x, y) == IF x <= y THEN x ELSE y

\* Vec::get(i).unwrap() and Vec's index operator, 0-based
get(v, i) == v[i + 1]

\* Vec::insert(index, element): element ends at 0-based position index
insert(v, index, element) ==
    SubSeq(v, 1, index) \o <<element>> \o SubSeq(v, index + 1, Len(v))

push(v, element) == Append(v, element)

RECURSIVE join(_, _)
\* [String]::join(sep)
join(v, sep) ==
    IF v = <<>> THEN ""
    ELSE IF Len(v) = 1 THEN v[1]
    ELSE v[1] \o sep \o join(Tail(v), sep)

----------------------------------------------------------------------------
(* Pixel algebra.  Every frame image has the canvas size (NPix pixels), as
   the DMI loader cuts them, so copy_from copies the whole base frame and
   does not fail. *)

Transparent == <<0, 0, 0, 0>>

\* masked_frame with the test on the mask's alpha inverted
masked_frame_inverted(base, mask) ==
    [p \in 1..NPix |-> IF mask[p][4] = 0 THEN Transparent ELSE base[p]]

\* the masked frame: a copy of base, cleared wherever the mask's alpha is not 0
masked_frame(base, mask) ==
    [p \in 1..NPix |-> IF mask[p][4] # 0 THEN Transparent ELSE base[p]]

\* the inverse: a copy of base, cleared wherever the mask's alpha is 0
unmasked_frame(base, mask) ==
    [p \in 1..NPix |-> IF mask[p][4] = 0 THEN Transparent ELSE base[p]]

\* base.images zipped with mask.images: the shorter of the two decides
masked_frames(base_images, mask_images) ==
    [i \in 1..min(Len(base_images), Len(mask_images)) |->
        masked_frame(base_images[i], mask_images[i])]

unmasked_frames(base_images, mask_images) ==
    [i \in 1..min(Len(base_images), Len(mask_images)) |->
        unmasked_frame(base_images[i], mask_images[i])]

----------------------------------------------------------------------------
(* State pairing and validation *)

\* position of the first state of that name in the snapshot taken on entry
extract_state(working_states, extract) ==
    LET hits == {i \in 1..Len(working_states) : working_states[i].name = extract}
    IN  IF hits = {} THEN None
        ELSE Some((CHOOSE i \in hits : \A j \in hits : i <= j) - 1)

mask_name_of(name) == name \o "_mask"

RECURSIVE missing_states_fail_fast(_, _)
\* missing_states stopping at the first target with a missing state
missing_states_fail_fast(working_states, target_states) ==
    IF target_states = <<>> THEN <<>>
    ELSE LET base_name  == Head(target_states)
             mask_name  == mask_name_of(base_name)
             base_index == extract_state(working_states, base_name)
             mask_index == extract_state(working_states, mask_name)
             here == (IF base_index = None THEN <<base_name>> ELSE <<>>)
                     \o (IF mask_index = None THEN <<mask_name>> ELSE <<>>)
         IN  IF here # <<>> THEN here
             ELSE missing_states_fail_fast(working_states, Tail(target_states))

RECURSIVE missing_states(_, _)
missing_states(working_states, target_states) ==
    IF target_states = <<>> THEN <<>>
    ELSE LET base_name  == Head(target_states)
             mask_name  == mask_name_of(base_name)
             base_index == extract_state(working_states, base_name)
             mask_index == extract_state(working_states, mask_name)
         IN  (IF base_index = None THEN <<base_name>> ELSE <<>>)
             \o (IF mask_index = None THEN <<mask_name>> ELSE <<>>)
             \o missing_states(working_states, Tail(target_states))

RECURSIVE paired_states(_, _)
paired_states(working_states, target_states) ==
    IF target_states = <<>> THEN <<>>
    ELSE LET base_name  == Head(target_states)
             mask_name  == mask_name_of(base_name)
             base_index == extract_state(working_states, base_name)
             mask_index == extract_state(working_states, mask_name)
             rest       == paired_states(working_states, Tail(target_states))
         IN  IF base_index = None \/ mask_index = None THEN rest
             ELSE <<[base_state    |-> get(working_states, unwrap(base_index)),
                     mask_state    |-> get(working_states, unwrap(mask_index)),
                     greater_index |-> max(unwrap(base_index), unwrap(mask_index))]>>
                  \o rest

RECURSIVE mismatched_dirs_fail_fast(_)
\* mismatched_dirs stopping at the first pair that differs
mismatched_dirs_fail_fast(pairs) ==
    IF pairs = <<>> THEN <<>>
    ELSE LET base == Head(pairs).base_state
             mask == Head(pairs).mask_state
         IN  IF base.dirs # mask.dirs
             THEN <<[target_name |-> base.name, mask_name |-> mask.name]>>
             ELSE mismatched_dirs_fail_fast(Tail(pairs))

RECURSIVE mismatched_dirs(_)
mismatched_dirs(pairs) ==
    IF pairs = <<>> THEN <<>>
    ELSE LET base == Head(pairs).base_state
             mask == Head(pairs).mask_state
         IN  (IF base.dirs # mask.dirs
              THEN <<[target_name |-> base.name, mask_name |-> mask.name]>>
              ELSE <<>>)
             \o mismatched_dirs(Tail(pairs))

RECURSIVE mismatched_delays(_)
mismatched_delays(pairs) ==
    IF pairs = <<>> THEN <<>>
    ELSE LET base == Head(pairs).base_state
             mask == Head(pairs).mask_state
         IN  (IF base.delay # mask.delay
              THEN <<[target_name   |-> base.name,
                      target_delays |-> unwrap_or_default(base.delay),
                      mask_name     |-> mask.name,
                      mask_delays   |-> unwrap_or_default(mask.delay)]>>
              ELSE <<>>)
             \o mismatched_delays(Tail(pairs))

----------------------------------------------------------------------------
(* Result merge *)

derived_name(base_name, suffix) == base_name \o "_" \o suffix

\* write_state that always appends a state it does not overwrite
write_state_push_only(final_states, possible, insert_at, state) ==
    IF possible # None
    THEN [final_states EXCEPT ![unwrap(possible) + 1] = state]
    ELSE push(final_states, state)

\* overwrite the slot the snapshot lookup found, else insert at insert_at
\* when that lies inside the list, else push
write_state(final_states, possible, insert_at, state) ==
    IF possible # None
    THEN [final_states EXCEPT ![unwrap(possible) + 1] = state]
    ELSE IF insert_at < Len(final_states)
         THEN insert(final_states, insert_at, state)
         ELSE push(final_states, state)

\* one iteration of the masking loop
apply_pair(final_states, pair, working_states, cfg) ==
    LET base_state == pair.base_state
        mask_state == pair.mask_state
        masked_name == derived_name(base_state.name, cfg.mask_suffix)
        masked_state == [base_state EXCEPT
                            !.name = masked_name,
                            !.images = masked_frames(base_state.images, mask_state.images)]
        with_masked == write_state(final_states,
                                   extract_state(working_states, masked_name),
                                   pair.greater_index + 1, masked_state)
        unmasked_name == derived_name(base_state.name, cfg.unmasked_suffix)
        unmasked_state == [base_state EXCEPT
                            !.name = unmasked_name,
                            !.images = unmasked_frames(base_state.images, mask_state.images)]
    IN  write_state(with_masked,
                    extract_state(working_states, unmasked_name),
                    pair.greater_index + 2, unmasked_state)

RECURSIVE apply_pairs(_, _, _, _)
apply_pairs(final_states, pairs, working_states, cfg) ==
    IF pairs = <<>> THEN final_states
    ELSE apply_pairs(apply_pair(final_states, Head(pairs), working_states, cfg),
                     Tail(pairs), working_states, cfg)

Ok(states) == <<"Ok", states>>

Err(error) == <<"Err", error>>

\* ProcessorError::from(MaskingError): the processor error that wraps it
ProcessorError_from(masking_error) == <<"Masking", masking_error>>

\* perform_operation testing the delays before the direction counts
perform_operation_delays_first(cfg, in) ==
    IF in.kind # "Dmi" THEN Err(<<"DMINotFound">>)
    ELSE
    LET working_states == in.states
        missing == missing_states(working_states, cfg.target_states)
        pairs   == paired_states(working_states, cfg.target_states)
        dirs    == mismatched_dirs(pairs)
        delays  == mismatched_delays(pairs)
    IN  IF Len(missing) > 0
        THEN Err(ProcessorError_from(<<"NonexistantStates", join(missing, ", ")>>))
        ELSE IF Len(delays) > 0
        THEN Err(ProcessorError_from(<<"MismatchedDelays", delays>>))
        ELSE IF Len(dirs) > 0
        THEN Err(ProcessorError_from(<<"MismatchedDirectionals", dirs>>))
        ELSE Ok(apply_pairs(in.states, pairs, working_states, cfg))

perform_operation(cfg, in) ==
    IF in.kind # "Dmi" THEN Err(<<"DMINotFound">>)
    ELSE
    LET working_states == in.states
        missing == missing_states(working_states, cfg.target_states)
        pairs   == paired_states(working_states, cfg.target_states)
        dirs    == mismatched_dirs(pairs)
        delays  == mismatched_delays(pairs)
    IN  IF Len(missing) > 0
        THEN Err(ProcessorError_from(<<"NonexistantStates", join(missing, ", ")>>))
        ELSE IF Len(dirs) > 0
        THEN Err(ProcessorError_from(<<"MismatchedDirectionals", dirs>>))
        ELSE IF Len(delays) > 0
        THEN Err(ProcessorError_from(<<"MismatchedDelays", delays>>))
        ELSE Ok(apply_pairs(in.states, pairs, working_states, cfg))

----------------------------------------------------------------------------
(* Diagnostics: UFE for MaskingError, and the CLI error that wraps it *)

\* util::delays::text_delays(delays, suffix): the delays and their unit
text_delays(delays, suffix) == <<delays, suffix>>

\* MaskingError::reasons rendering the direction mismatches as one reason
MaskingError_reasons_joined(e) ==
    IF e[1] = "NonexistantStates"
    THEN Some(<<"The following icon states were expected but not found: ["
                \o e[2] \o "]">>)
    ELSE IF e[1] = "MismatchedDirectionals"
    THEN Some(<<join([i \in 1..Len(e[2]) |->
                        "Icon state " \o e[2][i].target_name
                        \o "'s direction does not match " \o e[2][i].mask_name],
                     ", ")>>)
    ELSE Some([i \in 1..Len(e[2]) |->
                <<"Icon state ", e[2][i].target_name, "'s delays ",
                  text_delays(e[2][i].target_delays, "ds"), " do not match ",
                  e[2][i].mask_name, "'s ",
                  text_delays(e[2][i].mask_delays, "ds")>>])

MaskingError_reasons(e) ==
    IF e[1] = "NonexistantStates"
    THEN Some(<<"The following icon states were expected but not found: ["
                \o e[2] \o "]">>)
    ELSE IF e[1] = "MismatchedDirectionals"
    THEN Some([i \in 1..Len(e[2]) |->
                "Icon state " \o e[2][i].target_name
                \o "'s direction does not match " \o e[2][i].mask_name])
    ELSE Some([i \in 1..Len(e[2]) |->
                <<"Icon state ", e[2][i].target_name, "'s delays ",
                  text_delays(e[2][i].target_delays, "ds"), " do not match ",
                  e[2][i].mask_name, "'s ",
                  text_delays(e[2][i].mask_delays, "ds")>>])

MaskingError_helptext(e) ==
    IF e[1] = "NonexistantStates"
    THEN Some("Did you remember to save?")
    ELSE IF e[1] = "MismatchedDirectionals"
    THEN Some("Check if the two icon states have the same amount of directionals. Failing this, did you save?")
    ELSE Some("Make sure all the delays line up correctly, careful this can be a bit annoying")

\* ProcessorError's UFE: a wrapped masking error renders itself
ProcessorError_reasons(e) ==
    IF e[1] = "Masking" THEN MaskingError_reasons(e[2])
    ELSE Some(<<"This operation only accepts DMIs">>)

ProcessorError_helptext(e) ==
    IF e[1] = "Masking" THEN MaskingError_helptext(e[2])
    ELSE Some("Try using a .dmi instead")

\* InputError and OutputError, known here only by what their UFE returns
InputErrors ==
    {[reasons |-> Some(<<"unsupported format", "expected png or dmi">>),
      helptext |-> None]}

OutputErrors ==
    {[reasons |-> None, helptext |-> Some("check the output directory")]}

InputError_reasons(e) == e.reasons

InputError_helptext(e) == e.helptext

OutputError_reasons(e) == e.reasons

OutputError_helptext(e) == e.helptext

\* Error::reasons, for the variants that wrap another error
Error_reasons(err) ==
    IF err[1] = "InputParsingFailed" THEN InputError_reasons(err[2])
    ELSE IF err[1] = "ProcessorFailed" THEN ProcessorError_reasons(err[2])
    ELSE OutputError_reasons(err[2])

Error_helptext(err) ==
    IF err[1] = "InputParsingFailed" THEN InputError_helptext(err[2])
    ELSE IF err[1] = "ProcessorFailed" THEN ProcessorError_helptext(err[2])
    ELSE OutputError_helptext(err[2])

\* what the CLI shows of an error
render(err) ==
    [error |-> err, reasons |-> Error_reasons(err), helptext |-> Error_helptext(err)]

----------------------------------------------------------------------------
(* The run: one invocation, a second one on its own output, and the report *)

\* perform_operation on the decoded input
PerformOperation ==
    /\ runs = 0
    /\ report = None
    /\ result' = perform_operation(config, input)
    /\ runs' = 1
    /\ UNCHANGED <<input, config, report>>

\* the same configuration run again on the sprite the last run returned
RunAgain ==
    /\ runs >= 1
    /\ runs < MaxRuns
    /\ report = None
    /\ result[1] = "Ok"
    /\ input' = [kind |-> "Dmi", states |-> result[2]]
    /\ result' = perform_operation(config, input')
    /\ runs' = runs + 1
    /\ UNCHANGED <<config, report>>

\* the CLI wraps the failed run's error (Error::ProcessorFailed) and renders it
ReportProcessorFailed ==
    /\ runs >= 1
    /\ report = None
    /\ result[1] = "Err"
    /\ report' = Some(render(<<"ProcessorFailed", result[2]>>))
    /\ UNCHANGED <<input, config, result, runs>>

\* decoding the input failed before any run (Error::InputParsingFailed)
ReportInputParsingFailed ==
    /\ runs = 0
    /\ report = None
    /\ \E e \in InputErrors : report' = Some(render(<<"InputParsingFailed", e>>))
    /\ UNCHANGED <<input, config, result, runs>>

\* writing the returned sprite failed (Error::OutputWriteFailed)
ReportOutputWriteFailed ==
    /\ runs >= 1
    /\ report = None
    /\ result[1] = "Ok"
    /\ \E e \in OutputErrors : report' = Some(render(<<"OutputWriteFailed", e>>))
    /\ UNCHANGED <<input, config, result, runs>>

Next ==
    \/ PerformOperation
    \/ RunAgain
    \/ ReportProcessorFailed
    \/ ReportInputParsingFailed
    \/ ReportOutputWriteFailed

----------------------------------------------------------------------------
(* Inputs *)

Range(v) == {v[i] : i \in DOMAIN v}

SeqsUpTo(S, n) == UNION {[1..k -> S] : k \in 0..n}

\* picture rotated by k pixels: the frames of a drawn state differ
Rot(picture, k) == [p \in 1..NPix |-> picture[((p - 1 + k) % NPix) + 1]]

\* a decoded state: dirs * frames images, as the DMI loader cuts them
IconState(name, dirs, frames, delay, picture) ==
    [name |-> name, dirs |-> dirs, frames |-> frames, delay |-> delay,
     images |-> [i \in 1..(dirs * frames) |-> Rot(picture, i - 1)]]

frames_of(delay) == IF delay = None THEN 1 ELSE Len(unwrap(delay))

\* an input that is not a DMI
NotDmi == [kind |-> "Image", states |-> <<>>]

Dmi(states) == [kind |-> "Dmi", states |-> states]

BasePicture == [p \in 1..NPix |-> <<200, p, 0, 255>>]

MaskPicture == [p \in 1..NPix |-> <<0, 0, 0, IF p % 2 = 1 THEN 255 ELSE 0>>]

OldPicture == [p \in 1..NPix |-> <<90, 90, p, 255>>]

(* Validation inputs: the states a, a_mask, b, b_mask, c, c_mask, each present
   or absent, with direction counts and delays that agree or not. *)

ValidateTargets == {"a", "b", "c"}

BaseShapes == {<<1, None>>, <<1, Some(<<1, 2>>)>>, <<4, Some(<<1, 2>>)>>}

MaskShapes == {1, 4} \X {None, Some(<<1, 2>>), Some(<<1, 3>>)}

Shaped(name, shapes, picture) ==
    {<<>>} \cup {<<IconState(name, sh[1], frames_of(sh[2]), sh[2], picture)>> :
                    sh \in shapes}

PairVariants(name, base_shapes, mask_shapes) ==
    {b \o m : b \in Shaped(name, base_shapes, BasePicture),
              m \in Shaped(mask_name_of(name), mask_shapes, MaskPicture)}

ValidateSprites ==
    {pa \o pb \o pc :
        pa \in PairVariants("a", BaseShapes, MaskShapes),
        pb \in PairVariants("b", BaseShapes, MaskShapes),
        pc \in PairVariants("c", {<<1, None>>}, {<<1, None>>})}

Start ==
    /\ result = <<"None">>
    /\ runs = 0
    /\ report = None

InitValidate ==
    /\ \/ input = NotDmi
       \/ \E s \in ValidateSprites : input = Dmi(s)
    /\ \E t \in SeqsUpTo(ValidateTargets, MaxTargets) :
          config = [target_states |-> t, mask_suffix |-> "m", unmasked_suffix |-> "u"]
    /\ Start

SpecValidate == InitValidate /\ [][Next]_vars

(* Layout inputs: every list of at most MaxStates states with distinct names
   among the base, mask and derived names of a and b, all of one shape.  The
   states of b are bystanders when only a is a target. *)

MergeTargets == {"a", "b"}

SuffixPairs == {<<"m", "u">>, <<"m", "m">>}

TintedPicture(tint) == [p \in 1..NPix |-> <<tint, p, 0, 255>>]

MergeStates ==
    {IconState("a", 1, 1, None, TintedPicture(10)),
     IconState("b", 1, 1, None, TintedPicture(20)),
     IconState("a_mask", 1, 1, None, MaskPicture),
     IconState("b_mask", 1, 1, None, Rot(MaskPicture, 1)),
     IconState("a_m", 1, 1, None, OldPicture),
     IconState("a_u", 1, 1, None, OldPicture),
     IconState("b_m", 1, 1, None, OldPicture),
     IconState("b_u", 1, 1, None, OldPicture)}

DistinctNames(states) ==
    \A i, j \in DOMAIN states : states[i].name = states[j].name => i = j

MergeSprites == {s \in SeqsUpTo(MergeStates, MaxStates) : DistinctNames(s)}

InitMerge ==
    /\ \/ input = NotDmi
       \/ \E s \in MergeSprites : input = Dmi(s)
    /\ \E t \in SeqsUpTo(MergeTargets, MaxMergeTargets), sx \in SuffixPairs :
          config = [target_states |-> t, mask_suffix |-> sx[1], unmasked_suffix |-> sx[2]]
    /\ Start

SpecMerge == InitMerge /\ [][Next]_vars

(* Pixel inputs: the sprite [a, a_mask] with every base and mask picture over
   a few pixel values, and frame counts that agree or not. *)

BasePixels == {Transparent, <<255, 0, 0, 255>>, <<9, 9, 9, 0>>}

MaskPixels == {Transparent, <<0, 0, 0, 255>>, <<5, 5, 5, 1>>}

\* a state of f frames: no delay line, or one delay per frame
FrameShapes ==
    {<<f, None>> : f \in 1..MaxFrames}
    \cup {<<f, Some([i \in 1..f |-> 1])>> : f \in 1..MaxFrames}

PixelSprites ==
    {<<IconState("a", 1, bs[1], bs[2], bp), IconState("a_mask", 1, ms[1], ms[2], mp)>> :
        bs \in FrameShapes, ms \in FrameShapes,
        bp \in [1..NPix -> BasePixels], mp \in [1..NPix -> MaskPixels]}

InitPixel ==
    /\ \/ input = NotDmi
       \/ \E s \in PixelSprites : input = Dmi(s)
    /\ config = [target_states |-> <<"a">>, mask_suffix |-> "m", unmasked_suffix |-> "u"]
    /\ Start

SpecPixel == InitPixel /\ [][Next]_vars

----------------------------------------------------------------------------
(* What the claims speak of, stated on the input and the configuration *)

HasState(states, name) == \E i \in DOMAIN states : states[i].name = name

\* the first state of that name
StateNamed(states, name) ==
    states[CHOOSE i \in DOMAIN states :
              /\ states[i].name = name
              /\ \A j \in 1..(i - 1) : states[j].name # name]

\* the names looked up, in lookup order: X, X_mask for each target X in turn
Lookups(targets) ==
    [k \in 1..(2 * Len(targets)) |->
        IF k % 2 = 1 THEN targets[(k + 1) \div 2]
        ELSE targets[k \div 2] \o "_mask"]

ExpectedMissing ==
    SelectSeq(Lookups(config.target_states), LAMBDA n : ~HasState(input.states, n))

BaseOf(i) == StateNamed(input.states, config.target_states[i])

MaskOf(i) == StateNamed(input.states, config.target_states[i] \o "_mask")

TargetIndices == [i \in 1..Len(config.target_states) |-> i]

DirsDiffer(i) == BaseOf(i).dirs # MaskOf(i).dirs

DelaysDiffer(i) == BaseOf(i).delay # MaskOf(i).delay

\* Ok, DMINotFound, or the masking error's variant
Outcome ==
    IF result[1] = "Ok" THEN "Ok"
    ELSE IF result[2][1] = "Masking" THEN result[2][2][1]
    ELSE result[2][1]

\* the data the masking error carries
Carried == result[2][2][2]

Ran == runs >= 1 /\ input.kind = "Dmi"

NamesOf(indices) ==
    [k \in 1..Len(indices) |->
        [target_name |-> config.target_states[indices[k]],
         mask_name   |-> config.target_states[indices[k]] \o "_mask"]]

----------------------------------------------------------------------------
(* C1: when a target has no base state or no mask state, the run returns the
   Missing-states error and no sprite, and the error's name list is every
   missing name of every target, in target order, base name before mask name *)
C1_AllMissingReported ==
    (Ran /\ ExpectedMissing # <<>>)
        => /\ Outcome = "NonexistantStates"
           /\ Carried = join(ExpectedMissing, ", ")

\* targets [a, b, c] with a and c wholly missing
C1_Witness ==
    /\ Ran
    /\ config.target_states = <<"a", "b", "c">>
    /\ ExpectedMissing = <<"a", "a_mask", "c", "c_mask">>
    /\ Outcome = "NonexistantStates"
    /\ Carried = "a, a_mask, c, c_mask"

(* C2: the categories have a fixed priority: Missing states before
   Directional mismatch before Delay mismatch, and a run with none of them
   succeeds *)
C2_Priority ==
    Ran => Outcome =
            IF ExpectedMissing # <<>> THEN "NonexistantStates"
            ELSE IF \E i \in DOMAIN config.target_states : DirsDiffer(i)
            THEN "MismatchedDirectionals"
            ELSE IF \E i \in DOMAIN config.target_states : DelaysDiffer(i)
            THEN "MismatchedDelays"
            ELSE "Ok"

\* all states found, one pair differs in directions and a pair differs in delays
C2_Witness ==
    /\ Ran
    /\ ExpectedMissing = <<>>
    /\ \E i, j \in DOMAIN config.target_states :
          i # j /\ DirsDiffer(i) /\ ~DelaysDiffer(i) /\ DelaysDiffer(j) /\ ~DirsDiffer(j)
    /\ Outcome = "MismatchedDirectionals"

(* C3: with every target resolved, the Directional-mismatch error carries one
   entry, naming base and mask, for each target whose pair differs in direction
   count, in target order, and no other entry; the Delay-mismatch error does
   the same for the pairs whose delays differ (no delay against a delay list
   differs), with both delay lists *)
C3_OneEntryPerMismatch ==
    (Ran /\ ExpectedMissing = <<>>) =>
        /\ Outcome = "MismatchedDirectionals" =>
              Carried = NamesOf(SelectSeq(TargetIndices, DirsDiffer))
        /\ Outcome = "MismatchedDelays" =>
              LET idx == SelectSeq(TargetIndices, DelaysDiffer)
              IN  /\ Len(Carried) = Len(idx)
                  /\ \A k \in 1..Len(idx) :
                        /\ Carried[k].target_name = config.target_states[idx[k]]
                        /\ Carried[k].mask_name = config.target_states[idx[k]] \o "_mask"
                        /\ Carried[k].target_delays = unwrap_or_default(BaseOf(idx[k]).delay)
                        /\ Carried[k].mask_delays = unwrap_or_default(MaskOf(idx[k]).delay)

\* two mismatched pairs around one that agrees; a has 4 directions against 1
\* and the same delays
C3_Witness ==
    /\ Ran
    /\ config.target_states = <<"a", "c", "b">>
    /\ ExpectedMissing = <<>>
    /\ BaseOf(1).dirs = 4 /\ MaskOf(1).dirs = 1 /\ ~DelaysDiffer(1)
    /\ Outcome = "MismatchedDirectionals"
    /\ Len(Carried) = 2
    /\ Carried[1] = [target_name |-> "a", mask_name |-> "a_mask"]
    /\ Carried[2] = [target_name |-> "b", mask_name |-> "b_mask"]

----------------------------------------------------------------------------
(* The derived states *)

MaskedName(i) == config.target_states[i] \o "_" \o config.mask_suffix

UnmaskedName(i) == config.target_states[i] \o "_" \o config.unmasked_suffix

Output == result[2]

Succeeded == Ran /\ Outcome = "Ok"

\* the images a derived state should hold: one per base frame, cleared where
\* clear(alpha of the mask's pixel) holds
ExpectedImages(i, clear(_)) ==
    [f \in 1..Len(BaseOf(i).images) |->
        [p \in 1..NPix |->
            IF clear(MaskOf(i).images[f][p][4]) THEN Transparent
            ELSE BaseOf(i).images[f][p]]]

NonZero(alpha) == alpha # 0

Zero(alpha) == alpha = 0

ExpectedMasked(i) ==
    [BaseOf(i) EXCEPT !.name = MaskedName(i), !.images = ExpectedImages(i, NonZero)]

ExpectedUnmasked(i) ==
    [BaseOf(i) EXCEPT !.name = UnmaskedName(i), !.images = ExpectedImages(i, Zero)]

\* frame f, pixel p of the pair of target 1 and of its two derived states
FramesOut == 1..Len(StateNamed(Output, MaskedName(1)).images)

BasePixel(f, p) == BaseOf(1).images[f][p]

MaskAlpha(f, p) == MaskOf(1).images[f][p][4]

MaskedPixel(f, p) == StateNamed(Output, MaskedName(1)).images[f][p]

UnmaskedPixel(f, p) == StateNamed(Output, UnmaskedName(1)).images[f][p]

(* C4, as claimed: the masked pixel is fully transparent iff the mask's alpha
   is not 0, the unmasked pixel iff it is 0, and exactly one of the two equals
   the base pixel, for every base pixel value *)
C4_Original ==
    Succeeded =>
        \A f \in FramesOut, p \in 1..NPix :
            /\ MaskedPixel(f, p) = Transparent <=> MaskAlpha(f, p) # 0
            /\ UnmaskedPixel(f, p) = Transparent <=> MaskAlpha(f, p) = 0
            /\ (MaskedPixel(f, p) = BasePixel(f, p)) # (UnmaskedPixel(f, p) = BasePixel(f, p))

(* C4, amended: where the mask's alpha is not 0 the masked pixel is fully
   transparent and the unmasked pixel is the base pixel, where it is 0 the
   masked pixel is the base pixel and the unmasked pixel is fully transparent;
   the two "iff" and "exactly one" hold for every base pixel that is not
   itself fully transparent *)
C4_Complement ==
    Succeeded =>
        \A f \in FramesOut, p \in 1..NPix :
            /\ MaskAlpha(f, p) # 0 =>
                  /\ MaskedPixel(f, p) = Transparent
                  /\ UnmaskedPixel(f, p) = BasePixel(f, p)
            /\ MaskAlpha(f, p) = 0 =>
                  /\ MaskedPixel(f, p) = BasePixel(f, p)
                  /\ UnmaskedPixel(f, p) = Transparent
            /\ BasePixel(f, p) # Transparent =>
                  /\ MaskedPixel(f, p) = Transparent <=> MaskAlpha(f, p) # 0
                  /\ UnmaskedPixel(f, p) = Transparent <=> MaskAlpha(f, p) = 0
                  /\ (MaskedPixel(f, p) = BasePixel(f, p))
                        # (UnmaskedPixel(f, p) = BasePixel(f, p))

\* a run whose first frame has a coloured base pixel under a covering mask
\* pixel and a fully transparent base pixel under a mask pixel of alpha 0
C4_Witness ==
    /\ Succeeded
    /\ runs = 1
    /\ \E p, q \in 1..NPix :
          /\ BasePixel(1, p) = <<255, 0, 0, 255>> /\ MaskAlpha(1, p) = 255
          /\ MaskedPixel(1, p) = Transparent
          /\ UnmaskedPixel(1, p) = <<255, 0, 0, 255>>
          /\ BasePixel(1, q) = Transparent /\ MaskAlpha(1, q) = 0
          /\ MaskedPixel(1, q) = Transparent
          /\ UnmaskedPixel(1, q) = Transparent

(* C10: when the missing-state, direction and delay checks pass for a pair,
   base and mask have equally many frame images and each derived state has as
   many images as its base state *)
C10_EqualFrameCounts ==
    Succeeded =>
        \A i \in DOMAIN config.target_states :
            /\ Len(BaseOf(i).images) = Len(MaskOf(i).images)
            /\ Len(StateNamed(Output, MaskedName(i)).images) = Len(BaseOf(i).images)
            /\ Len(StateNamed(Output, UnmaskedName(i)).images) = Len(BaseOf(i).images)

----------------------------------------------------------------------------
(* Placement of the derived states *)

Position(states, name) ==
    CHOOSE i \in DOMAIN states :
        /\ states[i].name = name
        /\ \A j \in 1..(i - 1) : states[j].name # name

\* the later of the pair's base and mask states in the input
LaterOf(i) ==
    IF Position(input.states, BaseOf(i).name) > Position(input.states, MaskOf(i).name)
    THEN BaseOf(i) ELSE MaskOf(i)

\* 0-based position of the later of the pair's two states in the input
GreaterIndex(i) == Position(input.states, LaterOf(i).name) - 1

\* somewhere in states a state named second directly follows one named first
Follows(states, first, second) ==
    \E q \in 1..(Len(states) - 1) :
        states[q].name = first /\ states[q + 1].name = second

DerivedNames ==
    {MaskedName(i) : i \in DOMAIN config.target_states}
    \cup {UnmaskedName(i) : i \in DOMAIN config.target_states}

NoDerivedInInput == \A n \in DerivedNames : ~HasState(input.states, n)

\* each target's pair lies before the pair of the target listed before it
PairsListedBackwards ==
    \A i \in DOMAIN config.target_states :
        i > 1 => GreaterIndex(i) < GreaterIndex(i - 1)

NamesIn(states) == [q \in DOMAIN states |-> states[q].name]

(* C5, as claimed: for any number of targets, a derived state whose name is
   not in the input is placed so that the masked state directly follows the
   later of the pair's base and mask states and the unmasked state directly
   follows the masked state, also when only one of the two names exists *)
C5_Original ==
    Succeeded =>
        \A i \in DOMAIN config.target_states :
            /\ ~HasState(input.states, MaskedName(i)) =>
                  Follows(Output, LaterOf(i).name, MaskedName(i))
            /\ ~HasState(input.states, UnmaskedName(i)) =>
                  Follows(Output, MaskedName(i), UnmaskedName(i))

(* C5, amended: when no derived name of any target exists in the input and no
   target's pair lies behind the pair of a target listed before it (a single
   target in particular), the output holds each pair's masked state directly
   after the later of its base and mask states and its unmasked state directly
   after the masked state; [a, a_mask] with target a gives
   [a, a_mask, a_masked, a_unmasked] *)
C5_Placement ==
    (Succeeded /\ DistinctNames(input.states) /\ NoDerivedInInput
        /\ PairsListedBackwards) =>
        /\ Len(Output) = Len(input.states) + 2 * Len(config.target_states)
        /\ \A i \in DOMAIN config.target_states :
              LET q == Position(Output, LaterOf(i).name)
              IN  /\ q + 2 <= Len(Output)
                  /\ Output[q + 1] = ExpectedMasked(i)
                  /\ Output[q + 2] = ExpectedUnmasked(i)
        /\ (NamesIn(input.states) = <<"a", "a_mask">> /\ config.target_states = <<"a">>
              /\ config.unmasked_suffix = "u")
              => NamesIn(Output) = <<"a", "a_mask", "a_m", "a_u">>

\* two targets, the pair of the first lying behind the pair of the second
C5_Witness ==
    /\ Succeeded
    /\ runs = 1
    /\ config.target_states = <<"b", "a">>
    /\ config.unmasked_suffix = "u"
    /\ NamesIn(input.states) = <<"a_mask", "a", "b", "b_mask">>
    /\ NamesIn(Output)
         = <<"a_mask", "a", "a_m", "a_u", "b", "b_mask", "b_m", "b_u">>

(* C6: every input state whose name is no derived name of a target is in the
   output unchanged, and these states keep their order: only a state that
   carried a derived name is overwritten *)
C6_OnlyDerivedOverwritten ==
    Succeeded =>
        SelectSeq(Output, LAMBDA st : st.name \notin DerivedNames)
            = SelectSeq(input.states, LAMBDA st : st.name \notin DerivedNames)

(* C7: on success, for an input of distinct names and two different suffixes,
   the output holds for every target exactly one state of the masked name and
   exactly one of the unmasked name, with the frames computed from the pair *)
C7_OneDerivedStateEach ==
    (Succeeded /\ DistinctNames(input.states)
        /\ config.mask_suffix # config.unmasked_suffix) =>
        \A i \in DOMAIN config.target_states :
            /\ \E q \in DOMAIN Output :
                  /\ Output[q] = ExpectedMasked(i)
                  /\ \A r \in DOMAIN Output : Output[r].name = MaskedName(i) => r = q
            /\ \E q \in DOMAIN Output :
                  /\ Output[q] = ExpectedUnmasked(i)
                  /\ \A r \in DOMAIN Output : Output[r].name = UnmaskedName(i) => r = q

(* C8: a run on the output of a successful run with the same configuration
   succeeds and returns as many states as it was given *)
C8_SecondRunKeepsCount ==
    (runs >= 2 /\ input.kind = "Dmi") =>
        /\ Outcome = "Ok"
        /\ Len(Output) = Len(input.states)

----------------------------------------------------------------------------
(* Rendering *)

Reported == report # None /\ runs >= 1 /\ input.kind = "Dmi" /\ result[1] = "Err"

Reasons == unwrap(unwrap(report).reasons)

\* the CLI error hands back what the error it wraps renders
Delegates ==
    report # None =>
        LET err == unwrap(report).error
        IN  /\ err[1] = "ProcessorFailed" /\ err[2][1] = "Masking" =>
                  /\ unwrap(report).reasons = MaskingError_reasons(err[2][2])
                  /\ unwrap(report).helptext = MaskingError_helptext(err[2][2])
            /\ err[1] \in {"InputParsingFailed", "OutputWriteFailed"} =>
                  /\ unwrap(report).reasons = err[2].reasons
                  /\ unwrap(report).helptext = err[2].helptext

(* C9, as claimed: an error that batches n missing names, n direction
   mismatches or n delay mismatches renders n reasons, and the CLI error
   returns the wrapped error's reasons and help text *)
C9_Original ==
    /\ Delegates
    /\ Reported =>
          Len(Reasons) = IF Outcome = "NonexistantStates" THEN Len(ExpectedMissing)
                         ELSE Len(Carried)

(* C9, amended: the direction and delay mismatch errors render one reason per
   mismatched pair, in the order collected; the missing-states error renders
   exactly one reason, which lists all the missing names joined by ", "; the
   CLI error returns the wrapped error's reasons and help text *)
C9_Reasons ==
    /\ Delegates
    /\ Reported =>
          /\ Outcome = "NonexistantStates" =>
                Reasons = <<"The following icon states were expected but not found: ["
                            \o join(ExpectedMissing, ", ") \o "]">>
          /\ Outcome = "MismatchedDirectionals" =>
                /\ Len(Reasons) = Len(Carried)
                /\ \A k \in 1..Len(Carried) :
                      Reasons[k] = "Icon state " \o Carried[k].target_name
                                   \o "'s direction does not match "
                                   \o Carried[k].mask_name
          /\ Outcome = "MismatchedDelays" =>
                /\ Len(Reasons) = Len(Carried)
                /\ \A k \in 1..Len(Carried) :
                      /\ Reasons[k][2] = Carried[k].target_name
                      /\ Reasons[k][4][1] = Carried[k].target_delays
                      /\ Reasons[k][6] = Carried[k].mask_name
                      /\ Reasons[k][8][1] = Carried[k].mask_delays

\* four missing names rendered as one reason
C9_Witness ==
    /\ Reported
    /\ Outcome = "NonexistantStates"
    /\ Len(ExpectedMissing) = 4
    /\ Len(Reasons) = 1
    /\ unwrap(report).helptext = Some("Did you remember to save?")

====
